---- MODULE Spec2Model ----
(***************************************************************************)
(* Study scheduling core of the AnkiCard backend: the card_reviews table   *)
(* (app/cards/models.py), the SM-2 interval calculation                    *)
(* (CardReview.calculate_next_interval), the next-card selection and the   *)
(* review submission of StudyService (app/cards/study_service.py) and the  *)
(* three study endpoints of app/cards/routes.py.                           *)
(*                                                                         *)
(* Conventions of the model                                                *)
(*  - A nullable value (Optional[...], a nullable column) is a set with at *)
(*    most one element: None == {} and Some(x) == {x}.  A comparison with  *)
(*    a NULL column is then false, as in SQL.                              *)
(*  - ease_factor is held in hundredths (2.5 is 250).  Every increment of  *)
(*    the SM-2 law is a whole number of hundredths.                        *)
(*  - Time is a tick counter; a calendar day is TicksPerDay ticks long and *)
(*    timedelta(days=n) is n * TicksPerDay ticks.                          *)
(*  - A text is a sequence of characters.                                  *)
(***************************************************************************)
EXTENDS Integers, Sequences, FiniteSets, TLC

VARIABLES
    decks,      \* the decks table: id -> row (read only for the study core)
    cards,      \* the cards table: id -> row (read only for the study core)
    reviews,    \* the card_reviews table: a sequence of rows, row i has id i
    now,        \* datetime.now(), in ticks
    submits,    \* number of submissions that reached the service layer
    txn,        \* per request worker: the open database session of a submission
    result      \* the response in flight to the caller, or NoResponse: the
                \* request it answers, the status and the body; for an accepted
                \* submission also the row its session had loaded

vars == <<decks, cards, reviews, now, submits, txn, result>>

store == <<decks, cards>>

----------------------------------------------------------------------------
(* Bounds of the model *)

MaxSubmits == 2
MaxNow == 2
TicksPerDay == 2
MaxCalcEase == 17
MaxCalcInterval == 7
MaxCalcReps == 3

----------------------------------------------------------------------------
(* Optional values *)

None == {}
Some(x) == {x}
\* the value held by a non-null optional
The(o) == CHOOSE x \in o : TRUE

----------------------------------------------------------------------------
(* The card / deck store *)

Users == {1, 2}

\* A decks row is [user_id], a cards row [user_id, deck_id, answer].
\* The store of Spec: user 1 owns deck 1 with cards 1 and 2, user 2 owns
\* nothing.
StudyDecks == (1 :> [user_id |-> 1])

StudyCards ==
    (1 :> [user_id |-> 1, deck_id |-> 1, answer |-> <<"A">>]) @@
    (2 :> [user_id |-> 1, deck_id |-> 1, answer |-> <<" ", "b">>])

CardIds == DOMAIN cards
DeckIds == DOMAIN decks

\* request inputs
CardIdInputs == 1 .. 3
DeckIdInputs == 1 .. 2
ModeInputs == {"spaced", "fast", "quiz", "exam", "cram"}
QualityInputs == {None} \cup {Some(q) : q \in -1 .. 6}
AnswerInputs == {None, Some(<<" ", "a">>), Some(<<"B", " ">>)}
SessionInputs == {{}, {1}, {1, 2}}

\* The inputs a request is drawn with: an optional body parameter the mode
\* never reads is left at its default (routes.py lines 769-770, 829-830)
QualityInputsOf(mode) == IF mode = "spaced" THEN QualityInputs ELSE {None}
AnswerInputsOf(mode) == IF mode \in {"quiz", "exam"} THEN AnswerInputs ELSE {None}
SessionInputsOf(mode) == IF mode \in {"quiz", "exam"} THEN SessionInputs ELSE {{}}

----------------------------------------------------------------------------
(* Time *)

timedelta(days) == days * TicksPerDay

\* datetime.now().replace(hour=0, minute=0, second=0, microsecond=0)
today_start(t) == t - (t % TicksPerDay)

----------------------------------------------------------------------------
(* Texts: str.strip() and str.lower() *)

IsSpace(c) == c = " "

LowerChar(c) == IF c = "A" THEN "a" ELSE IF c = "B" THEN "b" ELSE c

lower(s) == [i \in 1 .. Len(s) |-> LowerChar(s[i])]

RECURSIVE lstrip(_)
lstrip(s) == IF s # <<>> /\ IsSpace(Head(s)) THEN lstrip(Tail(s)) ELSE s

RECURSIVE rstrip(_)
rstrip(s) ==
    IF s # <<>> /\ IsSpace(s[Len(s)]) THEN rstrip(SubSeq(s, 1, Len(s) - 1)) ELSE s

strip(s) == rstrip(lstrip(s))

----------------------------------------------------------------------------
(* CardReview.calculate_next_interval: the SM-2 law *)

Max(a, b) == IF a >= b THEN a ELSE b

\* Python round(n / d) for n >= 0, d > 0: round half to even
round(n, d) ==
    LET q == n \div d
        r == n % d
    IN  IF 2 * r < d THEN q
        ELSE IF 2 * r > d THEN q + 1
        ELSE IF q % 2 = 0 THEN q ELSE q + 1

\* mutant: the ease floor of line 102 is missing
new_ease_factor_no_floor(ease_factor, quality) ==
    ease_factor + (10 - (5 - quality) * (8 + (5 - quality) * 2))

\* mutant: the distance from a perfect answer is taken from 4
new_ease_factor_from_four(ease_factor, quality) ==
    Max(130, ease_factor + (10 - (4 - quality) * (8 + (4 - quality) * 2)))

\* new_ease, in hundredths
new_ease_factor(ease_factor, quality) ==
    Max(130, ease_factor + (10 - (5 - quality) * (8 + (5 - quality) * 2)))

\* mutant: a failed review resets repetitions but keeps the interval
calculate_next_interval_keep_interval(self, quality) ==
    LET new_ease == new_ease_factor(self.ease_factor, quality)
        new_repetitions == IF quality < 3 THEN 0 ELSE self.repetitions + 1
        new_interval ==
            IF quality < 3 THEN self.interval
            ELSE IF new_repetitions = 1 THEN 1
            ELSE IF new_repetitions = 2 THEN 6
            ELSE round(self.interval * new_ease, 100)
    IN  [new_ease |-> new_ease,
         new_interval |-> new_interval,
         new_repetitions |-> new_repetitions,
         new_due_date |-> now + timedelta(new_interval)]

\* mutant: the second pass is not special-cased to 6 days
calculate_next_interval_no_six(self, quality) ==
    LET new_ease == new_ease_factor(self.ease_factor, quality)
        new_repetitions == IF quality < 3 THEN 0 ELSE self.repetitions + 1
        new_interval ==
            IF quality < 3 THEN 1
            ELSE IF new_repetitions = 1 THEN 1
            ELSE round(self.interval * new_ease, 100)
    IN  [new_ease |-> new_ease,
         new_interval |-> new_interval,
         new_repetitions |-> new_repetitions,
         new_due_date |-> now + timedelta(new_interval)]

\* mutant: the product takes the ease the row held before the review
calculate_next_interval_prior_ease(self, quality) ==
    LET new_ease == new_ease_factor(self.ease_factor, quality)
        new_repetitions == IF quality < 3 THEN 0 ELSE self.repetitions + 1
        new_interval ==
            IF quality < 3 THEN 1
            ELSE IF new_repetitions = 1 THEN 1
            ELSE IF new_repetitions = 2 THEN 6
            ELSE round(self.interval * self.ease_factor, 100)
    IN  [new_ease |-> new_ease,
         new_interval |-> new_interval,
         new_repetitions |-> new_repetitions,
         new_due_date |-> now + timedelta(new_interval)]

calculate_next_interval(self, quality) ==
    LET new_ease == new_ease_factor(self.ease_factor, quality)
        new_repetitions == IF quality < 3 THEN 0 ELSE self.repetitions + 1
        new_interval ==
            IF quality < 3 THEN 1
            ELSE IF new_repetitions = 1 THEN 1
            ELSE IF new_repetitions = 2 THEN 6
            ELSE round(self.interval * new_ease, 100)
    IN  [new_ease |-> new_ease,
         new_interval |-> new_interval,
         new_repetitions |-> new_repetitions,
         new_due_date |-> now + timedelta(new_interval)]

----------------------------------------------------------------------------
(* The card_reviews table *)

\* CardReview(card_id=..., user_id=..., ease_factor=2.5, interval=1, repetitions=0[, quality=...])
CardReview(card_id, user_id, quality) ==
    [id |-> 0, card_id |-> card_id, user_id |-> user_id,
     ease_factor |-> 250, interval |-> 1, repetitions |-> 0,
     due_date |-> None, last_reviewed |-> None, quality |-> quality]

\* Query.first(): the first row of the query or None; without ORDER BY any row
first(rows) == IF rows = {} THEN {None} ELSE {Some(r) : r \in rows}

\* db.query(CardReview).filter(card_id == ..., user_id == ...): the matching rows
review_query(card_id, user_id) ==
    {reviews[i] : i \in {j \in DOMAIN reviews :
        reviews[j].card_id = card_id /\ reviews[j].user_id = user_id}}

\* mutant: every commit inserts the object as a new row
commit_always_insert(loaded, row) ==
    Append(reviews, [row EXCEPT !.id = Len(reviews) + 1])

\* db.add(review) / the UPDATE of the changed attributes, at db.commit():
\* `loaded` is what the session read (None: a new object), `row` the object
\* as the handler left it
commit(loaded, row) ==
    IF loaded = None
    THEN Append(reviews, [row EXCEPT !.id = Len(reviews) + 1])
    ELSE LET old == The(loaded)
         IN  [reviews EXCEPT ![old.id] =
                [f \in DOMAIN row |-> IF row[f] # old[f] THEN row[f] ELSE @[f]]]

----------------------------------------------------------------------------
(* StudyService: statistics and next-card selection *)

\* the rows of card_reviews
review_rows == {reviews[i] : i \in DOMAIN reviews}

\* db.query(Card).filter(Card.deck_id == deck_id, Card.user_id == user_id)
deck_cards(deck_id, user_id) ==
    {c \in CardIds : cards[c].deck_id = deck_id /\ cards[c].user_id = user_id}

\* mutant: done counts the rows reviewed in the last 24 hours
get_study_stats_last_day(deck_id, user_id) ==
    LET card_ids == deck_cards(deck_id, user_id)
        mine == {r \in review_rows : r.card_id \in card_ids /\ r.user_id = user_id}
    IN  IF card_ids = {}
        THEN [new |-> 0, to_review |-> 0, done |-> 0]
        ELSE [new |-> Cardinality(card_ids) - Cardinality({r.card_id : r \in mine}),
              to_review |-> Cardinality({r \in mine : \E d \in r.due_date : d <= now}),
              done |-> Cardinality({r \in mine :
                          \E t \in r.last_reviewed : t >= now - timedelta(1)})]

\* mutant: a row that is due is not counted as done
get_study_stats_exclusive(deck_id, user_id) ==
    LET card_ids == deck_cards(deck_id, user_id)
        mine == {r \in review_rows : r.card_id \in card_ids /\ r.user_id = user_id}
        to_review == {r \in mine : \E d \in r.due_date : d <= now}
    IN  IF card_ids = {}
        THEN [new |-> 0, to_review |-> 0, done |-> 0]
        ELSE [new |-> Cardinality(card_ids) - Cardinality({r.card_id : r \in mine}),
              to_review |-> Cardinality(to_review),
              done |-> Cardinality({r \in mine \ to_review :
                          \E t \in r.last_reviewed : t >= today_start(now)})]

get_study_stats(deck_id, user_id) ==
    LET card_ids == deck_cards(deck_id, user_id)
        reviewed_card_ids ==
            {r.card_id : r \in {x \in review_rows :
                x.card_id \in card_ids /\ x.user_id = user_id}}
        to_review ==
            {r \in review_rows : /\ r.card_id \in card_ids
                                 /\ r.user_id = user_id
                                 /\ \E d \in r.due_date : d <= now}
        done ==
            {r \in review_rows : /\ r.card_id \in card_ids
                                 /\ r.user_id = user_id
                                 /\ \E t \in r.last_reviewed : t >= today_start(now)}
    IN  IF card_ids = {}
        THEN [new |-> 0, to_review |-> 0, done |-> 0]
        ELSE [new |-> Cardinality(card_ids) - Cardinality(reviewed_card_ids),
              to_review |-> Cardinality(to_review),
              done |-> Cardinality(done)]

\* mutant: the join forgets the deck of the card
due_reviews_any_deck(deck_id, user_id) ==
    {r \in review_rows : /\ cards[r.card_id].user_id = user_id
                         /\ r.user_id = user_id
                         /\ \E d \in r.due_date : d <= now}

\* the rows of db.query(CardReview).join(Card).filter(... due_date <= now)
due_reviews(deck_id, user_id) ==
    {r \in review_rows : /\ cards[r.card_id].deck_id = deck_id
                         /\ cards[r.card_id].user_id = user_id
                         /\ r.user_id = user_id
                         /\ \E d \in r.due_date : d <= now}

\* query.order_by(CardReview.due_date.asc()): the rows that may come first
order_by_due_date(rows) ==
    {r \in rows : \A s \in rows : The(r.due_date) <= The(s.due_date)}

\* the cards of the deck without any review row of the user
new_cards(deck_id, user_id) ==
    LET reviewed_card_ids == {r.card_id : r \in {x \in review_rows : x.user_id = user_id}}
    IN  {c \in deck_cards(deck_id, user_id) : c \notin reviewed_card_ids}

\* mutant: due and new cards are drawn from one pool
get_next_card_spaced_one_pool(deck_id, user_id, shuffle) ==
    first({r.card_id : r \in due_reviews(deck_id, user_id)}
          \cup new_cards(deck_id, user_id))

\* mutant: the new-card fallback of lines 96-112 is missing
get_next_card_spaced_due_only(deck_id, user_id, shuffle) ==
    LET query == due_reviews(deck_id, user_id)
        due_review == IF shuffle THEN first(query) ELSE first(order_by_due_date(query))
    IN  IF query # {}
        THEN {Some(The(r).card_id) : r \in due_review}
        ELSE {None}

\* Each get_next_card_* is the set of values the call may return
\* (None or Some(card id)): func.random() and an unordered first() may
\* return any row of the query.
get_next_card_spaced_repetition(deck_id, user_id, shuffle) ==
    LET query == due_reviews(deck_id, user_id)
        due_review == IF shuffle THEN first(query) ELSE first(order_by_due_date(query))
    IN  IF query # {}
        THEN {Some(The(r).card_id) : r \in due_review}
        ELSE first(new_cards(deck_id, user_id))

\* mutant: every card with a row of the user is skipped
get_next_card_fast_review_never_reviewed(deck_id, user_id, shuffle) ==
    LET reviewed_ids == {r.card_id : r \in {x \in review_rows : x.user_id = user_id}}
    IN  first({c \in deck_cards(deck_id, user_id) : c \notin reviewed_ids})

get_next_card_fast_review(deck_id, user_id, shuffle) ==
    LET reviewed_today_ids ==
            {r.card_id : r \in {x \in review_rows :
                /\ x.user_id = user_id
                /\ \E t \in x.last_reviewed : t >= today_start(now)}}
    IN  first({c \in deck_cards(deck_id, user_id) : c \notin reviewed_today_ids})

\* mutant: the session exclusion of lines 152-153 is missing
get_next_card_quiz_no_exclusion(deck_id, user_id, session_cards, shuffle) ==
    first(deck_cards(deck_id, user_id))

get_next_card_quiz(deck_id, user_id, session_cards, shuffle) ==
    first({c \in deck_cards(deck_id, user_id) :
             session_cards = {} \/ c \notin session_cards})

----------------------------------------------------------------------------
(* StudyService: what a submission does to the fetched-or-created row *)

\* mutant: the due date is computed from the interval the row held before
spaced_update_old_interval(review, quality) ==
    LET n == calculate_next_interval(review, quality)
    IN  [review EXCEPT !.ease_factor = n.new_ease,
                       !.interval = n.new_interval,
                       !.repetitions = n.new_repetitions,
                       !.due_date = Some(now + timedelta(review.interval)),
                       !.quality = Some(quality),
                       !.last_reviewed = Some(now)]

\* mutant: the interval is counted from the day of the review, that day included
spaced_update_day_included(review, quality) ==
    LET n == calculate_next_interval(review, quality)
    IN  [review EXCEPT !.ease_factor = n.new_ease,
                       !.interval = n.new_interval,
                       !.repetitions = n.new_repetitions,
                       !.due_date = Some(now + timedelta(n.new_interval - 1)),
                       !.quality = Some(quality),
                       !.last_reviewed = Some(now)]

\* lines 198-207 of submit_review_spaced_repetition
spaced_update(review, quality) ==
    LET n == calculate_next_interval(review, quality)
    IN  [review EXCEPT !.ease_factor = n.new_ease,
                       !.interval = n.new_interval,
                       !.repetitions = n.new_repetitions,
                       !.due_date = Some(n.new_due_date),
                       !.quality = Some(quality),
                       !.last_reviewed = Some(now)]

\* mutant: the quality 4 of a new row is written on every fast review
fast_update_marks_quality(review) ==
    [review EXCEPT !.last_reviewed = Some(now), !.quality = Some(4)]

\* mutant: the review is acknowledged without its date
fast_update_undated(review) == review

\* line 245 of submit_review_fast
fast_update(review) == [review EXCEPT !.last_reviewed = Some(now)]

\* mutant: the comparison forgets to fold the case
is_correct_case_sensitive(card_answer, user_answer) ==
    strip(card_answer) = strip(user_answer)

\* line 271 of submit_quiz_answer
is_correct(card_answer, user_answer) ==
    lower(strip(card_answer)) = lower(strip(user_answer))

\* mutant: the quiz outcome is fed to the SM-2 update
quiz_update_runs_sm2(review, correct) ==
    spaced_update(review, IF correct THEN 5 ELSE 0)

\* mutant: a wrong answer resets the streak of the row
quiz_update_resets_streak(review, correct) ==
    [review EXCEPT !.last_reviewed = Some(now),
                   !.quality = Some(IF correct THEN 5 ELSE 0),
                   !.repetitions = IF correct THEN @ ELSE 0]

\* lines 289-290 of submit_quiz_answer
quiz_update(review, correct) ==
    [review EXCEPT !.last_reviewed = Some(now),
                   !.quality = Some(IF correct THEN 5 ELSE 0)]

\* the object the service works on: the fetched row, or a new CardReview
fetch_or_create(loaded, card_id, user_id, quality) ==
    IF loaded = None THEN CardReview(card_id, user_id, quality) ELSE The(loaded)

\* the row a service call leaves in its session, by mode
updated_review(loaded, card_id, user_id, mode, quality, answer) ==
    IF mode = "spaced"
    THEN spaced_update(fetch_or_create(loaded, card_id, user_id, None), The(quality))
    ELSE IF mode = "fast"
    THEN fast_update(fetch_or_create(loaded, card_id, user_id, Some(4)))
    ELSE quiz_update(fetch_or_create(loaded, card_id, user_id, None),
                     is_correct(cards[card_id].answer, The(answer)))

\* the dictionary a service call returns, by mode
service_result(row, card_id, mode, answer) ==
    IF mode = "spaced"
    THEN [next_review_in_days |-> row.interval,
          ease_factor |-> row.ease_factor,
          repetitions |-> row.repetitions]
    ELSE IF mode = "fast"
    THEN [reviewed |-> TRUE]
    ELSE [correct |-> is_correct(cards[card_id].answer, The(answer)),
          expected_answer |-> cards[card_id].answer]

----------------------------------------------------------------------------
(* The study endpoints of routes.py, each request handled in one step.     *)
(* Requests are served one at a time: a handler starts when no response is *)
(* in flight, and Return delivers the response to the caller.              *)

NoResponse == [op |-> "none"]

Modes == {"spaced", "fast", "quiz", "exam"}
QuizModes == {"quiz", "exam"}

HTTPException(status_code, detail) == [status |-> status_code, detail |-> detail]

\* db.query(Deck).filter(Deck.id == deck_id, Deck.user_id == current_user.id).first()
deck_of_user(deck_id, current_user) ==
    deck_id \in DeckIds /\ decks[deck_id].user_id = current_user

\* mutant: the card lookup forgets the owner filter
card_exists(card_id, current_user) == card_id \in CardIds

\* db.query(Card).filter(Card.id == card_id, Card.user_id == current_user.id).first()
card_of_user(card_id, current_user) ==
    card_id \in CardIds /\ cards[card_id].user_id = current_user

\* the request of a response: a request refused at the ownership check is
\* recorded by its ids, the handler having read nothing else
submit_request(current_user, card_id, mode, quality, answer) ==
    IF ~card_of_user(card_id, current_user)
    THEN [user_id |-> current_user, card_id |-> card_id]
    ELSE [user_id |-> current_user, card_id |-> card_id, mode |-> mode,
          quality |-> quality, answer |-> answer]

next_request(current_user, deck_id, mode, session_cards, shuffle) ==
    IF ~deck_of_user(deck_id, current_user)
    THEN [user_id |-> current_user, deck_id |-> deck_id]
    ELSE [user_id |-> current_user, deck_id |-> deck_id, mode |-> mode,
          session_cards |-> session_cards, shuffle |-> shuffle]

\* mutant: the range check of lines 853-854 is missing
submit_error_no_range_check(current_user, card_id, mode, quality, answer) ==
    IF ~card_of_user(card_id, current_user)
    THEN Some(HTTPException(404, "Card not found"))
    ELSE IF mode = "spaced"
    THEN IF quality = None
         THEN Some(HTTPException(400, "Quality rating required for spaced repetition"))
         ELSE None
    ELSE IF mode = "fast"
    THEN None
    ELSE IF mode \in QuizModes
    THEN IF answer = None
         THEN Some(HTTPException(400, "Answer required for quiz/exam mode"))
         ELSE None
    ELSE Some(HTTPException(400, "Invalid study mode"))

\* the checks of submit_study_review: the exception raised, or None
submit_error(current_user, card_id, mode, quality, answer) ==
    IF ~card_of_user(card_id, current_user)
    THEN Some(HTTPException(404, "Card not found"))
    ELSE IF mode = "spaced"
    THEN IF quality = None
         THEN Some(HTTPException(400, "Quality rating required for spaced repetition"))
         ELSE IF The(quality) < 0 \/ The(quality) > 5
         THEN Some(HTTPException(400, "Quality must be between 0 and 5"))
         ELSE None
    ELSE IF mode = "fast"
    THEN None
    ELSE IF mode \in QuizModes
    THEN IF answer = None
         THEN Some(HTTPException(400, "Answer required for quiz/exam mode"))
         ELSE None
    ELSE Some(HTTPException(400, "Invalid study mode"))

\* the checks of get_next_study_card: the exception raised, or None
next_error(current_user, deck_id, mode) ==
    IF ~deck_of_user(deck_id, current_user)
    THEN Some(HTTPException(404, "Deck not found"))
    ELSE IF mode \notin Modes
    THEN Some(HTTPException(400, "Invalid study mode"))
    ELSE None

\* the card the service of the mode may return
next_card(current_user, deck_id, mode, session_cards, shuffle) ==
    IF mode = "spaced"
    THEN get_next_card_spaced_repetition(deck_id, current_user, shuffle)
    ELSE IF mode = "fast"
    THEN get_next_card_fast_review(deck_id, current_user, shuffle)
    ELSE get_next_card_quiz(deck_id, current_user, session_cards, shuffle)

\* mutant: a card counts as new as long as it has no due date
study_card_new_until_scheduled(card, review) ==
    [id |-> card, user_id |-> cards[card].user_id, deck_id |-> cards[card].deck_id,
     is_new |-> (review = None \/ The(review).due_date = None),
     due_date |-> IF review # None THEN The(review).due_date ELSE None]

\* lines 803-822 of get_next_study_card: the annotated card
study_card(card, review) ==
    [id |-> card, user_id |-> cards[card].user_id, deck_id |-> cards[card].deck_id,
     is_new |-> (review = None),
     due_date |-> IF review # None THEN The(review).due_date ELSE None]

\* GET /study/{deck_id}/stats
get_study_stats_endpoint(current_user, deck_id) ==
    /\ result = NoResponse
    /\ result' =
         IF ~deck_of_user(deck_id, current_user)
         THEN [op |-> "stats",
               request |-> [user_id |-> current_user, deck_id |-> deck_id],
               status |-> 404, body |-> HTTPException(404, "Deck not found")]
         ELSE [op |-> "stats",
               request |-> [user_id |-> current_user, deck_id |-> deck_id],
               status |-> 200, body |-> get_study_stats(deck_id, current_user)]
    /\ UNCHANGED <<store, reviews, now, submits, txn>>

\* mutant: serving a card without a row creates the row
get_next_study_card_creating(current_user, deck_id, mode, session_cards, shuffle) ==
    LET request == next_request(current_user, deck_id, mode, session_cards, shuffle)
        error == next_error(current_user, deck_id, mode)
    IN  /\ result = NoResponse
        /\ IF error # None
           THEN /\ result' = [op |-> "next", request |-> request,
                              status |-> The(error).status, body |-> The(error)]
                /\ UNCHANGED reviews
           ELSE \E card \in next_card(current_user, deck_id, mode, session_cards, shuffle) :
                  IF card = None
                  THEN /\ result' = [op |-> "next", request |-> request,
                                     status |-> 200, body |-> None]
                       /\ UNCHANGED reviews
                  ELSE \E review \in first(review_query(The(card), current_user)) :
                         /\ result' = [op |-> "next", request |-> request, status |-> 200,
                                       body |-> Some(study_card(The(card), review))]
                         /\ reviews' = IF review = None
                                       THEN commit(None, CardReview(The(card), current_user, None))
                                       ELSE reviews
        /\ UNCHANGED <<store, now, submits, txn>>

\* POST /study/next
get_next_study_card(current_user, deck_id, mode, session_cards, shuffle) ==
    LET request == next_request(current_user, deck_id, mode, session_cards, shuffle)
        error == next_error(current_user, deck_id, mode)
    IN  /\ result = NoResponse
        /\ IF error # None
           THEN result' = [op |-> "next", request |-> request,
                           status |-> The(error).status, body |-> The(error)]
           ELSE \E card \in next_card(current_user, deck_id, mode, session_cards, shuffle) :
                  IF card = None
                  THEN result' = [op |-> "next", request |-> request,
                                  status |-> 200, body |-> None]
                  ELSE \E review \in first(review_query(The(card), current_user)) :
                         result' = [op |-> "next", request |-> request, status |-> 200,
                                    body |-> Some(study_card(The(card), review))]
        /\ UNCHANGED <<store, reviews, now, submits, txn>>

\* the body of POST /study/review: validation, service call, response
review_submitted(current_user, card_id, mode, quality, answer) ==
    LET request == submit_request(current_user, card_id, mode, quality, answer)
        error == submit_error(current_user, card_id, mode, quality, answer)
    IN  /\ IF error # None
           THEN /\ result' = [op |-> "submit", request |-> request,
                              status |-> The(error).status, body |-> The(error)]
                /\ UNCHANGED <<reviews, submits>>
           ELSE /\ submits < MaxSubmits
                /\ \E loaded \in first(review_query(card_id, current_user)) :
                     LET row == updated_review(loaded, card_id, current_user,
                                               mode, quality, answer)
                     IN  /\ reviews' = commit(loaded, row)
                         /\ result' = [op |-> "submit", request |-> request,
                                       status |-> 200, loaded |-> loaded,
                                       body |-> service_result(row, card_id, mode, answer)]
                /\ submits' = submits + 1
        /\ UNCHANGED <<store, now, txn>>

\* POST /study/review
submit_study_review(current_user, card_id, mode, quality, answer) ==
    /\ result = NoResponse
    /\ review_submitted(current_user, card_id, mode, quality, answer)

\* the clock advances between requests
Tick ==
    /\ result = NoResponse
    /\ now < MaxNow
    /\ now' = now + 1
    /\ UNCHANGED <<store, reviews, submits, txn, result>>

\* the caller receives the response
Return ==
    /\ result # NoResponse
    /\ result' = NoResponse
    /\ UNCHANGED <<store, reviews, now, submits, txn>>

Workers == {1, 2}

Idle == [pc |-> "idle"]

Init ==
    /\ decks = StudyDecks
    /\ cards = StudyCards
    /\ reviews = <<>>
    /\ now = 0
    /\ submits = 0
    /\ txn = [w \in Workers |-> Idle]
    /\ result = NoResponse

Next ==
    \/ Tick
    \/ Return
    \/ \E u \in Users, d \in DeckIdInputs : get_study_stats_endpoint(u, d)
    \/ \E u \in Users, d \in DeckIdInputs, m \in ModeInputs :
         \E s \in SessionInputsOf(m), sh \in BOOLEAN :
            get_next_study_card(u, d, m, s, sh)
    \/ \E u \in Users, c \in CardIdInputs, m \in ModeInputs :
         \E q \in QualityInputsOf(m), a \in AnswerInputsOf(m) :
            submit_study_review(u, c, m, q, a)

Spec == Init /\ [][Next]_vars


----------------------------------------------------------------------------
(* The interval calculator on any stored row: the ledger starts with one   *)
(* row of card 1 holding any ease_factor, interval and repetitions of the  *)
(* bounded ranges, and spaced submissions advance it.                      *)

EaseInputs == {130 + 10 * k : k \in 0 .. MaxCalcEase}

InitCalc ==
    /\ decks = StudyDecks
    /\ cards = StudyCards
    /\ \E e \in EaseInputs, i \in 1 .. MaxCalcInterval, n \in 0 .. MaxCalcReps :
         reviews = << [CardReview(1, 1, None) EXCEPT
                         !.id = 1, !.ease_factor = e, !.interval = i,
                         !.repetitions = n, !.last_reviewed = Some(0)] >>
    /\ now = 0
    /\ submits = 0
    /\ txn = [w \in Workers |-> Idle]
    /\ result = NoResponse

NextCalc ==
    \/ Return
    \/ \E q \in QualityInputs : submit_study_review(1, 1, "spaced", q, None)

SpecCalc == InitCalc /\ [][NextCalc]_vars


----------------------------------------------------------------------------
(* Submissions served by two workers at once.  A submission is two steps   *)
(* of its database session: begin_submit runs the checks of the route and  *)
(* the SELECT of the service (lines 182-185, 229-232, 274-277), and        *)
(* commit_submit updates the object it got and commits (db.commit()).      *)
(* Sessions run READ COMMITTED: the INSERT or UPDATE of a commit is        *)
(* applied to the table as it is then.  The table has a primary key on id  *)
(* and no unique constraint on (card_id, user_id) (models.py 58-84).       *)

\* a refused request opens no session
begin_submit(w, current_user, card_id, mode, quality, answer) ==
    /\ txn[w] = Idle
    /\ IF submit_error(current_user, card_id, mode, quality, answer) # None
       THEN UNCHANGED <<txn, submits>>
       ELSE /\ submits < MaxSubmits
            /\ submits' = submits + 1
            /\ \E loaded \in first(review_query(card_id, current_user)) :
                 txn' = [txn EXCEPT ![w] =
                           [pc |-> "fetched", user_id |-> current_user,
                            card_id |-> card_id, mode |-> mode,
                            quality |-> quality, answer |-> answer,
                            loaded |-> loaded]]
    /\ UNCHANGED <<store, reviews, now, result>>

commit_submit(w) ==
    /\ txn[w].pc = "fetched"
    /\ LET t == txn[w]
           row == updated_review(t.loaded, t.card_id, t.user_id,
                                 t.mode, t.quality, t.answer)
       IN  reviews' = commit(t.loaded, row)
    /\ txn' = [txn EXCEPT ![w] = Idle]
    /\ UNCHANGED <<store, now, submits, result>>

NextRace ==
    \/ Tick
    \/ \E w \in Workers, u \in Users, c \in CardIdInputs, m \in ModeInputs :
         \E q \in QualityInputsOf(m), a \in AnswerInputsOf(m) :
            begin_submit(w, u, c, m, q, a)
    \/ \E w \in Workers : commit_submit(w)

SpecRace == Init /\ [][NextRace]_vars

----------------------------------------------------------------------------
(* The statistics of a shelf of decks: user 1 owns deck 1 with cards 1 and *)
(* 2, the empty deck 2 and deck 3 with card 3.  Submissions in every mode  *)
(* fill the ledger, the clock advances and the statistics are read.        *)

ShelfDecks == (1 :> [user_id |-> 1]) @@ (2 :> [user_id |-> 1]) @@ (3 :> [user_id |-> 1])

ShelfCards ==
    (1 :> [user_id |-> 1, deck_id |-> 1, answer |-> <<"A">>]) @@
    (2 :> [user_id |-> 1, deck_id |-> 1, answer |-> <<" ", "b">>]) @@
    (3 :> [user_id |-> 1, deck_id |-> 3, answer |-> <<"A">>])

ShelfDeckInputs == 1 .. 3

InitStats ==
    /\ decks = ShelfDecks
    /\ cards = ShelfCards
    /\ reviews = <<>>
    /\ now = 0
    /\ submits = 0
    /\ txn = [w \in Workers |-> Idle]
    /\ result = NoResponse

NextStats ==
    \/ Tick
    \/ Return
    \/ \E u \in Users, d \in ShelfDeckInputs : get_study_stats_endpoint(u, d)
    \/ \E c \in CardIdInputs, m \in Modes :
         \E q \in QualityInputsOf(m), a \in AnswerInputsOf(m) :
            submit_study_review(1, c, m, q, a)

SpecStats == InitStats /\ [][NextStats]_vars

----------------------------------------------------------------------------
(* Submissions that carry every body parameter: quality and answer are     *)
(* both drawn for every mode, also for the modes that never read them.     *)

NextFull ==
    \/ Tick
    \/ Return
    \/ \E c \in CardIdInputs, m \in {"spaced", "fast", "quiz"} :
         \E q \in QualityInputs, a \in AnswerInputs :
            submit_study_review(1, c, m, q, a)

SpecFull == Init /\ [][NextFull]_vars

----------------------------------------------------------------------------
(* Two workers on a ledger that already holds a row: card 1 was reviewed   *)
(* once by user 1, in spaced mode with quality 5, at tick 0.               *)

InitStored ==
    /\ decks = StudyDecks
    /\ cards = StudyCards
    /\ now = 0
    /\ reviews = << [spaced_update(CardReview(1, 1, None), 5) EXCEPT !.id = 1] >>
    /\ submits = 0
    /\ txn = [w \in Workers |-> Idle]
    /\ result = NoResponse

SpecStored == InitStored /\ [][NextRace]_vars

----------------------------------------------------------------------------
(* Two owners and several decks: user 1 owns deck 1 with card 1 and deck 2 *)
(* with card 2, user 2 owns deck 3 with card 3.  Both users study and      *)
(* submit.                                                                 *)

SharedDecks == (1 :> [user_id |-> 1]) @@ (2 :> [user_id |-> 1]) @@ (3 :> [user_id |-> 2])

SharedCards ==
    (1 :> [user_id |-> 1, deck_id |-> 1, answer |-> <<"A">>]) @@
    (2 :> [user_id |-> 1, deck_id |-> 2, answer |-> <<" ", "b">>]) @@
    (3 :> [user_id |-> 2, deck_id |-> 3, answer |-> <<"A">>])

\* the grades the two users give: none, a lapse, a pass
SharedQualityInputs == {None, Some(1), Some(4)}

InitShared ==
    /\ decks = SharedDecks
    /\ cards = SharedCards
    /\ reviews = <<>>
    /\ now = 0
    /\ submits = 0
    /\ txn = [w \in Workers |-> Idle]
    /\ result = NoResponse

NextShared ==
    \/ Tick
    \/ Return
    \/ \E u \in Users, d \in ShelfDeckInputs, m \in Modes :
         \E s \in SessionInputsOf(m), sh \in BOOLEAN :
            get_next_study_card(u, d, m, s, sh)
    \/ \E u \in Users, c \in CardIdInputs, m \in Modes :
         \E q \in QualityInputsOf(m) \cap SharedQualityInputs, a \in AnswerInputsOf(m) :
            submit_study_review(u, c, m, q, a)

SpecShared == InitShared /\ [][NextShared]_vars

----------------------------------------------------------------------------
(* A study session of user 1 on deck 1 within one calendar day: the client *)
(* asks for the next card, submits a review of the card it was given, and  *)
(* asks again.  The day is the second one, so the table may hold rows of   *)
(* the day before.                                                         *)

\* the row left by a first spaced review of quality 5 at time t
spaced_row(card_id, t) ==
    [CardReview(card_id, 1, None) EXCEPT !.ease_factor = 260,
                                         !.repetitions = 1,
                                         !.due_date = Some(t + timedelta(1)),
                                         !.quality = Some(5),
                                         !.last_reviewed = Some(t)]

\* the row left by a first fast review at time t
fast_row(card_id, t) ==
    [CardReview(card_id, 1, Some(4)) EXCEPT !.last_reviewed = Some(t)]

\* what the table may hold for a card when the session starts: nothing, or
\* a spaced or fast row written the day before or earlier today
SessionRows(card_id) ==
    {None,
     Some(spaced_row(card_id, 0)),
     Some(spaced_row(card_id, timedelta(1) - 1)),
     Some(spaced_row(card_id, timedelta(1))),
     Some(fast_row(card_id, 0)),
     Some(fast_row(card_id, timedelta(1)))}

\* the rows in insertion order, with their primary keys
stored(rows) == [i \in 1..Len(rows) |-> [rows[i] EXCEPT !.id = i]]

InitSession ==
    /\ decks = StudyDecks
    /\ cards = StudyCards
    /\ now = timedelta(1)
    /\ \E r1 \in SessionRows(1), r2 \in SessionRows(2) :
         reviews = stored((IF r1 = None THEN <<>> ELSE <<The(r1)>>) \o
                          (IF r2 = None THEN <<>> ELSE <<The(r2)>>))
    /\ submits = 0
    /\ txn = [w \in Workers |-> Idle]
    /\ result = NoResponse

\* the grade the client gives, by mode
SessionQualityInputs(mode) == IF mode = "spaced" THEN {Some(q) : q \in 0..5} ELSE {None}

\* the client reviews the card it was given, in the mode of the session
session_submit ==
    /\ result # NoResponse
    /\ result.op = "next" /\ result.status = 200 /\ result.body # None
    /\ \E q \in SessionQualityInputs(result.request.mode) :
         review_submitted(result.request.user_id, The(result.body).id,
                          result.request.mode, q, None)

\* the client takes any other response and goes on
session_continue ==
    /\ ~(result.op = "next" /\ result.status = 200 /\ result.body # None)
    /\ Return

\* the clock advances within the day
session_tick ==
    /\ result = NoResponse
    /\ today_start(now + 1) = today_start(now)
    /\ now' = now + 1
    /\ UNCHANGED <<store, reviews, submits, txn, result>>

NextFastSession ==
    \/ session_tick
    \/ session_continue
    \/ \E sh \in BOOLEAN : get_next_study_card(1, 1, "fast", {}, sh)
    \/ session_submit

SpecFastSession == InitSession /\ [][NextFastSession]_vars

NextSpacedSession ==
    \/ session_tick
    \/ session_continue
    \/ \E sh \in BOOLEAN : get_next_study_card(1, 1, "spaced", {}, sh)
    \/ session_submit

SpecSpacedSession == InitSession /\ [][NextSpacedSession]_vars

----------------------------------------------------------------------------
(* Vocabulary of the properties *)

\* the rows of the ledger for a (card, user) pair
RecordsOf(card_id, user_id) ==
    {i \in DOMAIN reviews :
        reviews[i].card_id = card_id /\ reviews[i].user_id = user_id}

\* a card is new for the user / due for the user
IsNew(card_id, user_id) == RecordsOf(card_id, user_id) = {}

IsDue(card_id, user_id) ==
    \E i \in RecordsOf(card_id, user_id) : \E d \in reviews[i].due_date : d <= now

\* the cards of a deck that belong to the user
CardsOfDeck(deck_id, user_id) ==
    {c \in DOMAIN cards : cards[c].deck_id = deck_id /\ cards[c].user_id = user_id}

\* the response in flight answers an accepted request of the kind
Answered(op) == result.op = op /\ result.status = 200

\* the step of a handler that answers a request of the kind
Handles(op) == result = NoResponse /\ result'.op = op

\* the SM-2 fields of a row
Sm2(row) == <<row.ease_factor, row.interval, row.repetitions>>

----------------------------------------------------------------------------
(* C1: in spaced mode, when the deck holds a due card and a new card,      *)
(* NextCard returns a due card and never a new one, with shuffle and       *)
(* without.                                                                *)
C1_DueBeforeNew ==
    (Answered("next") /\ result.request.mode = "spaced") =>
        LET deck == CardsOfDeck(result.request.deck_id, result.request.user_id)
            user == result.request.user_id
        IN  ((\E c \in deck : IsDue(c, user)) /\ (\E c \in deck : IsNew(c, user)))
            => /\ result.body # None
               /\ IsDue(The(result.body).id, user)
               /\ ~IsNew(The(result.body).id, user)

C1_Witness ==
    /\ Answered("next") /\ result.request.mode = "spaced"
    /\ result.request.shuffle
    /\ \E c \in CardIds : IsDue(c, result.request.user_id)
    /\ \E c \in CardIds : IsNew(c, result.request.user_id)
    /\ result.body # None

(* C2: a quiz or exam submission leaves ease_factor, interval and          *)
(* repetitions of every existing row as they were, and a row it creates    *)
(* holds the defaults 2.5, 1, 0.                                           *)
C2_QuizKeepsSm2 ==
    [][(Handles("submit") /\ result'.status = 200
            /\ result'.request.mode \in QuizModes) =>
          /\ \A i \in DOMAIN reviews :
                i \in DOMAIN reviews' /\ Sm2(reviews'[i]) = Sm2(reviews[i])
          /\ \A i \in DOMAIN reviews' \ DOMAIN reviews :
                Sm2(reviews'[i]) = <<250, 1, 0>>]_vars

\* a wrong quiz answer was recorded on a row that a spaced review had advanced
C2_Witness ==
    /\ Answered("submit") /\ result.request.mode \in QuizModes
    /\ ~result.body.correct
    /\ \E i \in RecordsOf(result.request.card_id, result.request.user_id) :
          /\ reviews[i].repetitions = 1
          /\ reviews[i].quality = Some(0)

(* C3: with quality 0, 1 or 2 the calculator returns repetitions 0 and     *)
(* interval 1 whatever the stored ease, interval and repetitions, and the  *)
(* spaced submission leaves the row with repetitions 0 and interval 1.     *)
C3_FailureResets ==
    [][(Handles("submit") /\ result'.status = 200
            /\ result'.request.mode = "spaced"
            /\ The(result'.request.quality) < 3) =>
          /\ result'.body.repetitions = 0
          /\ result'.body.next_review_in_days = 1
          /\ \A i \in RecordsOf(result'.request.card_id, result'.request.user_id) :
                reviews'[i].repetitions = 0 /\ reviews'[i].interval = 1]_vars

\* quality 2 was recorded on a row that held interval 7 and repetitions 3
C3_Witness ==
    /\ Answered("submit") /\ result.request.mode = "spaced"
    /\ result.request.quality = Some(2)
    /\ result.loaded # None
    /\ The(result.loaded).interval = 7 /\ The(result.loaded).repetitions = 3
    /\ reviews[1].interval = 1 /\ reviews[1].repetitions = 0

(* C4: with quality 3, 4 or 5 a review from repetitions 0 gives            *)
(* repetitions 1 and interval 1, and one from repetitions 1 gives          *)
(* repetitions 2 and interval 6, whatever the ease and the interval.       *)
C4_FirstAndSecondPass ==
    [][(Handles("submit") /\ result'.status = 200
            /\ result'.request.mode = "spaced"
            /\ The(result'.request.quality) >= 3) =>
          \A i \in RecordsOf(result'.request.card_id, result'.request.user_id) :
             /\ reviews[i].repetitions = 0 =>
                  /\ result'.body.repetitions = 1
                  /\ result'.body.next_review_in_days = 1
                  /\ reviews'[i].repetitions = 1 /\ reviews'[i].interval = 1
             /\ reviews[i].repetitions = 1 =>
                  /\ result'.body.repetitions = 2
                  /\ result'.body.next_review_in_days = 6
                  /\ reviews'[i].repetitions = 2 /\ reviews'[i].interval = 6]_vars

\* the second pass, from interval 7 on the ease floor, gave 6 days
C4_Witness ==
    /\ Answered("submit") /\ result.request.mode = "spaced"
    /\ result.request.quality = Some(3)
    /\ result.loaded # None
    /\ The(result.loaded).repetitions = 1 /\ The(result.loaded).interval = 7
    /\ result.body.repetitions = 2 /\ result.body.next_review_in_days = 6
    /\ result.body.ease_factor = 130

C6_OneRowPerPair ==
    \A i, j \in DOMAIN reviews :
        (reviews[i].card_id = reviews[j].card_id
            /\ reviews[i].user_id = reviews[j].user_id) => i = j

\* a submission found the row of its pair, and the pair still has one row
C6_Witness ==
    /\ Answered("submit")
    /\ result.loaded # None
    /\ Cardinality(RecordsOf(result.request.card_id, result.request.user_id)) = 1

(* C8: a submission that ends in a validation error leaves the ledger      *)
(* unchanged, and these submissions do: spaced without quality, spaced     *)
(* with quality below 0 or above 5, quiz or exam without answer, and a     *)
(* mode outside spaced, fast, quiz, exam.                                  *)
InvalidSubmission(request) ==
    \/ /\ request.mode = "spaced"
       /\ \/ request.quality = None
          \/ The(request.quality) < 0
          \/ The(request.quality) > 5
    \/ request.mode \in QuizModes /\ request.answer = None
    \/ request.mode \notin Modes

C8_ValidationErrorKeepsLedger ==
    [][(Handles("submit") /\ result'.status # 404) =>
          ((InvalidSubmission(result'.request) \/ result'.status = 400) =>
              (result'.status = 400 /\ reviews' = reviews))]_vars

\* quality 6 was refused while the ledger held a row
C8_Witness ==
    /\ result.op = "submit" /\ result.status = 400
    /\ result.request.mode = "spaced" /\ result.request.quality = Some(6)
    /\ reviews # <<>>

(* C9: a submission for a card that does not exist or belongs to another   *)
(* user ends not-found and changes no row; NextCard and GetStats for a     *)
(* deck the user does not own end not-found.                               *)
C9_NotFound ==
    [][/\ Handles("submit") =>
            (~(/\ result'.request.card_id \in DOMAIN cards
               /\ cards[result'.request.card_id].user_id = result'.request.user_id)
             => (result'.status = 404 /\ reviews' = reviews))
       /\ (Handles("next") \/ Handles("stats")) =>
            (~(/\ result'.request.deck_id \in DOMAIN decks
               /\ decks[result'.request.deck_id].user_id = result'.request.user_id)
             => (result'.status = 404 /\ reviews' = reviews))]_vars

\* user 2 was refused card 1 of user 1, which has a row
C9_Witness ==
    /\ result.op = "submit" /\ result.status = 404
    /\ result.request.card_id \in CardIds
    /\ RecordsOf(result.request.card_id, 1) # {}

(* C10: in quiz and exam mode NextCard never returns a card of             *)
(* session_cards, returns a card of the deck whenever one is outside       *)
(* session_cards whatever the ledger holds, and returns null when          *)
(* session_cards holds every card of the deck.                             *)
C10_QuizExcludesSession ==
    (Answered("next") /\ result.request.mode \in QuizModes) =>
        LET left == CardsOfDeck(result.request.deck_id, result.request.user_id)
                        \ result.request.session_cards
        IN  /\ (result.body = None) <=> (left = {})
            /\ result.body # None => The(result.body).id \in left

\* card 2 was returned with card 1 excluded, though reviewed today
C10_Witness ==
    /\ Answered("next") /\ result.request.mode = "exam"
    /\ result.request.session_cards = {1}
    /\ result.body # None
    /\ \E i \in RecordsOf(The(result.body).id, result.request.user_id) :
          reviews[i].last_reviewed = Some(now)


(* C11: GetStats returns new = the cards of the deck minus the distinct    *)
(* cards of the deck with a row of the user, to_review = the rows of the   *)
(* deck and user with due_date <= now, done = the rows of the deck and     *)
(* user with last_reviewed on the current day; a deck of N cards without   *)
(* rows gives N, 0, 0 and an empty deck gives zeros.                       *)
DayOf(t) == t \div TicksPerDay

RowsOfDeck(deck_id, user_id) ==
    {i \in DOMAIN reviews : /\ reviews[i].user_id = user_id
                            /\ reviews[i].card_id \in CardsOfDeck(deck_id, user_id)}

C11_Stats ==
    Answered("stats") =>
        LET d == result.request.deck_id
            u == result.request.user_id
            deck == CardsOfDeck(d, u)
            rows == RowsOfDeck(d, u)
        IN  /\ result.body.new =
                  Cardinality(deck) - Cardinality({c \in deck : ~IsNew(c, u)})
            /\ result.body.to_review =
                  Cardinality({i \in rows : \E t \in reviews[i].due_date : t <= now})
            /\ result.body.done =
                  Cardinality({i \in rows :
                     \E t \in reviews[i].last_reviewed : DayOf(t) = DayOf(now)})
            /\ rows = {} =>
                  result.body = [new |-> Cardinality(deck), to_review |-> 0, done |-> 0]
            /\ deck = {} => result.body = [new |-> 0, to_review |-> 0, done |-> 0]

\* deck 1 on the second day: card 1 reviewed the day before and due, card 2
\* new, while deck 3 holds a row reviewed today
C11_Witness ==
    /\ Answered("stats") /\ result.request.deck_id = 1
    /\ result.body = [new |-> 1, to_review |-> 1, done |-> 0]
    /\ \E i \in RowsOfDeck(3, 1) : reviews[i].last_reviewed = Some(now)

(* C12: in fast mode NextCard returns a card of the deck without a row or  *)
(* with last_reviewed before the start of the current day, and returns     *)
(* none exactly when every card of the deck has a row with last_reviewed   *)
(* on the current day, whichever mode wrote it.                            *)
ReviewedToday(card_id, user_id) ==
    \E i \in RecordsOf(card_id, user_id) :
        \E t \in reviews[i].last_reviewed : DayOf(t) = DayOf(now)

ReviewedBeforeToday(card_id, user_id) ==
    \E i \in RecordsOf(card_id, user_id) :
        \E t \in reviews[i].last_reviewed : DayOf(t) < DayOf(now)

C12_FastSkipsToday ==
    (Answered("next") /\ result.request.mode = "fast") =>
        LET u == result.request.user_id
            deck == CardsOfDeck(result.request.deck_id, u)
        IN  /\ result.body # None =>
                  /\ The(result.body).id \in deck
                  /\ \/ IsNew(The(result.body).id, u)
                     \/ ReviewedBeforeToday(The(result.body).id, u)
            /\ (result.body = None) <=> (\A c \in deck : ReviewedToday(c, u))

\* the card returned was answered in a quiz the day before
C12_Witness ==
    /\ Answered("next") /\ result.request.mode = "fast"
    /\ result.body # None
    /\ \E i \in RecordsOf(The(result.body).id, result.request.user_id) :
          /\ reviews[i].due_date = None
          /\ reviews[i].quality = Some(5)
          /\ \E t \in reviews[i].last_reviewed : DayOf(t) < DayOf(now)

(* C13: in spaced mode, when no card of the deck is due, NextCard returns  *)
(* a card of the deck without a row of the user if there is one, and       *)
(* returns none exactly when the deck has neither a due nor a new card.    *)
C13_NewCardFallback ==
    (Answered("next") /\ result.request.mode = "spaced") =>
        LET u == result.request.user_id
            deck == CardsOfDeck(result.request.deck_id, u)
            due == {c \in deck : IsDue(c, u)}
            fresh == {c \in deck : IsNew(c, u)}
        IN  /\ (due = {} /\ fresh # {}) =>
                  (result.body # None /\ The(result.body).id \in fresh)
            /\ (result.body = None) <=> (due = {} /\ fresh = {})

\* the new card was returned while the other card waits for its due date
C13_Witness ==
    /\ Answered("next") /\ result.request.mode = "spaced"
    /\ result.body # None /\ The(result.body).is_new
    /\ \E c \in CardsOfDeck(result.request.deck_id, result.request.user_id) :
          /\ ~IsNew(c, result.request.user_id)
          /\ ~IsDue(c, result.request.user_id)
          /\ \E i \in RecordsOf(c, result.request.user_id) : reviews[i].due_date # None

(* C14: in spaced mode without shuffle and with a due row, NextCard        *)
(* returns the card of the due row with the smallest due_date, and among   *)
(* rows of equal smallest due_date the one with the smallest card_id.      *)
DueRowsOfDeck(deck_id, user_id) ==
    {i \in RowsOfDeck(deck_id, user_id) : \E t \in reviews[i].due_date : t <= now}

C14_EarliestDueLowestId ==
    (Answered("next") /\ result.request.mode = "spaced" /\ ~result.request.shuffle) =>
        LET rows == DueRowsOfDeck(result.request.deck_id, result.request.user_id)
        IN  rows # {} =>
              /\ result.body # None
              /\ \E i \in rows :
                    /\ reviews[i].card_id = The(result.body).id
                    /\ \A j \in rows :
                          \/ The(reviews[i].due_date) < The(reviews[j].due_date)
                          \/ /\ The(reviews[i].due_date) = The(reviews[j].due_date)
                             /\ reviews[i].card_id <= reviews[j].card_id

(* C15: without shuffle NextCard returns the earliest-created card of its  *)
(* candidate set in fast mode, in quiz and exam mode and in the new-card   *)
(* fallback of spaced mode.  Card ids are assigned in creation order.      *)
CandidatesOf(request) ==
    LET u == request.user_id
        deck == CardsOfDeck(request.deck_id, u)
    IN  IF request.mode = "fast"
        THEN {c \in deck : ~ReviewedToday(c, u)}
        ELSE IF request.mode \in QuizModes
        THEN deck \ request.session_cards
        ELSE IF \E c \in deck : IsDue(c, u)
        THEN {}
        ELSE {c \in deck : IsNew(c, u)}

C15_CreationOrder ==
    (Answered("next") /\ ~result.request.shuffle) =>
        LET candidates == CandidatesOf(result.request)
        IN  candidates # {} =>
              /\ result.body # None
              /\ \A c \in candidates : The(result.body).id <= c

(* C16: an accepted spaced submission with quality q runs the calculator   *)
(* on the current ease_factor, interval and repetitions of the row (2.5,   *)
(* 1, 0 for a new row) and stores new_ease, new_interval, new_repetitions, *)
(* due_date = now + new_interval days, quality = q and last_reviewed =     *)
(* now; the response carries the stored interval, ease_factor and          *)
(* repetitions.                                                            *)
C16_SpacedSubmit ==
    (Answered("submit") /\ result.request.mode = "spaced") =>
        LET q == The(result.request.quality)
            prior == IF result.loaded = None
                     THEN [ease_factor |-> 250, interval |-> 1, repetitions |-> 0]
                     ELSE The(result.loaded)
            n == calculate_next_interval(prior, q)
            rows == RecordsOf(result.request.card_id, result.request.user_id)
        IN  /\ rows # {}
            /\ \A i \in rows :
                  /\ reviews[i].ease_factor = n.new_ease
                  /\ reviews[i].interval = n.new_interval
                  /\ reviews[i].repetitions = n.new_repetitions
                  /\ reviews[i].due_date = Some(now + n.new_interval * TicksPerDay)
                  /\ reviews[i].quality = Some(q)
                  /\ reviews[i].last_reviewed = Some(now)
                  /\ result.body = [next_review_in_days |-> reviews[i].interval,
                                    ease_factor |-> reviews[i].ease_factor,
                                    repetitions |-> reviews[i].repetitions]

\* the second pass of a card: the stored row (2.6, 1, 1) became (2.7, 6, 2),
\* due in six days
C16_Witness ==
    /\ Answered("submit") /\ result.request.mode = "spaced"
    /\ result.loaded # None
    /\ The(result.loaded).interval = 1 /\ The(result.loaded).repetitions = 1
    /\ result.body.next_review_in_days = 6
    /\ \E i \in RecordsOf(result.request.card_id, result.request.user_id) :
          reviews[i].due_date = Some(now + 6 * TicksPerDay)

(* C17: a fast submission on an existing row changes last_reviewed only,   *)
(* whatever quality or answer the request carries; on a pair without a row *)
(* it creates one with ease_factor 2.5, interval 1, repetitions 0, quality *)
(* 4 and no due_date; it returns reviewed = true.                          *)
C17_FastTouchesLastReviewed ==
    [][(Handles("submit") /\ result'.status = 200
            /\ result'.request.mode = "fast") =>
          LET rows == RecordsOf(result'.request.card_id, result'.request.user_id)
          IN  /\ result'.body = [reviewed |-> TRUE]
              /\ \A i \in DOMAIN reviews :
                    /\ i \in DOMAIN reviews'
                    /\ reviews'[i] =
                         IF i \in rows
                         THEN [reviews[i] EXCEPT !.last_reviewed = Some(now)]
                         ELSE reviews[i]
              /\ rows # {} => Len(reviews') = Len(reviews)
              /\ rows = {} =>
                    /\ Len(reviews') = Len(reviews) + 1
                    /\ LET r == reviews'[Len(reviews')]
                       IN  /\ r.card_id = result'.request.card_id
                           /\ r.user_id = result'.request.user_id
                           /\ Sm2(r) = <<250, 1, 0>>
                           /\ r.quality = Some(4)
                           /\ r.due_date = None]_vars

\* a fast submission carrying quality 6 and an answer touched a row that a
\* failed spaced review had scheduled
C17_Witness ==
    /\ Answered("submit") /\ result.request.mode = "fast"
    /\ result.request.quality = Some(6) /\ result.request.answer # None
    /\ result.loaded # None
    /\ The(result.loaded).last_reviewed # Some(now)
    /\ \E i \in RecordsOf(result.request.card_id, result.request.user_id) :
          /\ reviews[i].quality = Some(0)
          /\ reviews[i].due_date # None
          /\ reviews[i].last_reviewed = Some(now)

(* C18: a quiz or exam submission reports correct = true exactly when the  *)
(* submitted answer equals the stored answer of the card after trimming    *)
(* surrounding whitespace and ignoring case, stores quality 5 when correct *)
(* and 0 otherwise, sets last_reviewed = now and returns the stored answer *)
(* as expected_answer.                                                     *)
SameLetter(a, b) == a = b \/ {a, b} = {"A", "a"} \/ {a, b} = {"B", "b"}

Trimmed(s) ==
    LET inked == {i \in 1 .. Len(s) : s[i] # " "}
    IN  IF inked = {} THEN <<>>
        ELSE SubSeq(s, CHOOSE i \in inked : \A j \in inked : i <= j,
                       CHOOSE i \in inked : \A j \in inked : i >= j)

SameAnswer(s, t) ==
    /\ Len(Trimmed(s)) = Len(Trimmed(t))
    /\ \A i \in 1 .. Len(Trimmed(s)) : SameLetter(Trimmed(s)[i], Trimmed(t)[i])

C18_QuizGrading ==
    (Answered("submit") /\ result.request.mode \in QuizModes) =>
        LET card == result.request.card_id
            same == SameAnswer(cards[card].answer, The(result.request.answer))
            rows == RecordsOf(card, result.request.user_id)
        IN  /\ result.body.correct = same
            /\ result.body.expected_answer = cards[card].answer
            /\ rows # {}
            /\ \A i \in rows :
                  /\ reviews[i].quality = Some(IF same THEN 5 ELSE 0)
                  /\ reviews[i].last_reviewed = Some(now)

\* an answer that differs from the stored one in case and in surrounding
\* whitespace was graded correct, over a row that held quality 0
C18_Witness ==
    /\ Answered("submit") /\ result.request.mode = "exam"
    /\ result.body.correct
    /\ The(result.request.answer) # cards[result.request.card_id].answer
    /\ result.loaded # None /\ The(result.loaded).quality = Some(0)
    /\ \E i \in RecordsOf(result.request.card_id, result.request.user_id) :
          reviews[i].quality = Some(5)

(* C19: a quiz or exam submission leaves the set of cards that spaced     *)
(* NextCard can return for the deck and user as it was, also when the      *)
(* card submitted had no row.                                              *)
SpacedReturnable(deck_id, user_id) ==
    UNION {get_next_card_spaced_repetition(deck_id, user_id, shuffle) :
              shuffle \in BOOLEAN}

C19_QuizKeepsSchedule ==
    [][(Handles("submit") /\ result'.status = 200
            /\ result'.request.mode \in QuizModes) =>
          \A u \in Users, d \in DOMAIN decks :
             u = result'.request.user_id =>
                SpacedReturnable(d, u)' = SpacedReturnable(d, u)]_vars

(* C20: from (2.5, 1, 0) a calculator step with quality 5 gives            *)
(* (2.6, 1, 1), a second step with quality 5 on that result gives          *)
(* (2.7, 6, 2), and a quality 5 always raises the ease by 0.1.             *)
C20_TwoEasySteps ==
    (Answered("submit") /\ result.request.mode = "spaced"
        /\ result.request.quality = Some(5) /\ result.loaded # None) =>
        LET before == The(result.loaded)
            after == <<result.body.ease_factor, result.body.next_review_in_days,
                       result.body.repetitions>>
        IN  /\ result.body.ease_factor = before.ease_factor + 10
            /\ Sm2(before) = <<250, 1, 0>> => after = <<260, 1, 1>>
            /\ Sm2(before) = <<260, 1, 1>> => after = <<270, 6, 2>>
            /\ \A i \in RecordsOf(result.request.card_id, result.request.user_id) :
                  Sm2(reviews[i]) = after

\* the second of two quality 5 reviews, the first of which left (2.6, 1, 1)
C20_Witness ==
    /\ Answered("submit") /\ result.request.quality = Some(5)
    /\ submits = 2
    /\ result.loaded # None
    /\ Sm2(The(result.loaded)) = <<260, 1, 1>>
    /\ The(result.loaded).quality = Some(5)
    /\ Sm2(reviews[1]) = <<270, 6, 2>>

(* C21: the card NextCard returns, in every mode, carries is_new = true    *)
(* exactly when the ledger has no row for the card and the user, and       *)
(* due_date = the due_date of that row when there is one and null          *)
(* otherwise.                                                              *)
C21_Annotation ==
    (Answered("next") /\ result.body # None) =>
        LET card == The(result.body)
            rows == RecordsOf(card.id, result.request.user_id)
        IN  /\ card.is_new <=> (rows = {})
            /\ rows = {} => card.due_date = None
            /\ \A i \in rows : card.due_date = reviews[i].due_date

\* a card that only a quiz has touched: it has a row, so it is not new, and
\* the row has no due date
C21_Witness ==
    /\ Answered("next") /\ result.body # None
    /\ ~The(result.body).is_new
    /\ The(result.body).due_date = None
    /\ RecordsOf(The(result.body).id, result.request.user_id) # {}

(* C22: NextCard, in its four modes, and GetStats leave the ledger          *)
(* unchanged; a row for a card and user appears only with the first        *)
(* accepted submission for the pair, in any mode; every later submission   *)
(* updates that row in place; no request ever removes a row.               *)
C22_Lifecycle ==
    [][/\ (Handles("next") \/ Handles("stats")) => reviews' = reviews
       /\ \A i \in DOMAIN reviews :
             /\ i \in DOMAIN reviews'
             /\ reviews'[i].card_id = reviews[i].card_id
             /\ reviews'[i].user_id = reviews[i].user_id
       /\ reviews' # reviews => (Handles("submit") /\ result'.status = 200)
       /\ (Handles("submit") /\ result'.status = 200) =>
             LET c == result'.request.card_id
                 u == result'.request.user_id
                 rows == RecordsOf(c, u)
             IN  /\ rows # {} =>
                       /\ Len(reviews') = Len(reviews)
                       /\ \A i \in DOMAIN reviews \ rows : reviews'[i] = reviews[i]
                 /\ rows = {} =>
                       /\ reviews' = Append(reviews, reviews'[Len(reviews')])
                       /\ reviews'[Len(reviews')].card_id = c
                       /\ reviews'[Len(reviews')].user_id = u]_vars

\* the second submission for a pair, in another mode than the first, found
\* the row of the first and the ledger still holds that one row
C22_Witness ==
    /\ Answered("submit") /\ result.request.mode = "fast"
    /\ result.loaded # None
    /\ The(result.loaded).due_date # None
    /\ Len(reviews) = 1
    /\ reviews[1].id = The(result.loaded).id
    /\ submits = 2

(* C23: for a passing review (quality >= 3) of a row with repetitions >= 2 *)
(* the new interval is round(prior interval x new ease): the ease is       *)
(* updated and floored at 1.3 first, and the product takes that new ease   *)
(* and the interval stored before; from (2.7, 6, 2) quality 4 gives        *)
(* repetitions 3 and interval 16.                                          *)
Nearest(k, n, d) ==
    \* k is n / d rounded to the nearest integer, a tie going to the even one
    /\ 2 * d * k - 2 * n <= d
    /\ 2 * n - 2 * d * k <= d
    /\ (2 * d * k - 2 * n = d \/ 2 * n - 2 * d * k = d) => k % 2 = 0

C23_IntervalGrowth ==
    (Answered("submit") /\ result.request.mode = "spaced"
        /\ result.loaded # None
        /\ The(result.request.quality) >= 3
        /\ The(result.loaded).repetitions >= 2) =>
        LET before == The(result.loaded)
            q == The(result.request.quality)
            raised == before.ease_factor + 10 - (5 - q) * (8 + (5 - q) * 2)
            ease == IF raised < 130 THEN 130 ELSE raised
            row == reviews[before.id]
        IN  /\ row.ease_factor = ease
            /\ row.repetitions = before.repetitions + 1
            /\ Nearest(row.interval, before.interval * ease, 100)
            /\ (Sm2(before) = <<270, 6, 2>> /\ q = 4) => Sm2(row) = <<270, 16, 3>>

\* the third pass of the example: (2.7, 6, 2) with quality 4
C23_Witness ==
    /\ Answered("submit") /\ result.request.quality = Some(4)
    /\ result.loaded # None
    /\ Sm2(The(result.loaded)) = <<270, 6, 2>>
    /\ Sm2(reviews[1]) = <<270, 16, 3>>

(* C24: the repetitions of a row count the consecutive spaced submissions *)
(* with quality >= 3 since the last spaced submission with quality < 3 or  *)
(* since the row was created: each accepted submission leaves the count of *)
(* the row one higher when it is spaced with quality >= 3, at 0 when it is *)
(* spaced with quality < 3, and as it was (0 for a new row) when it is     *)
(* fast, quiz or exam.                                                     *)
C24_RepetitionsCountPasses ==
    Answered("submit") =>
        LET before == IF result.loaded = None THEN 0
                      ELSE The(result.loaded).repetitions
            rows == RecordsOf(result.request.card_id, result.request.user_id)
        IN  /\ rows # {}
            /\ \A i \in rows :
                  reviews[i].repetitions =
                     IF result.request.mode = "spaced"
                     THEN IF The(result.request.quality) >= 3 THEN before + 1 ELSE 0
                     ELSE before

\* a wrong exam answer after a passed spaced review left the count of 1 alone
C24_Witness ==
    /\ Answered("submit") /\ result.request.mode = "exam"
    /\ ~result.body.correct
    /\ result.loaded # None /\ The(result.loaded).repetitions = 1
    /\ \E i \in RecordsOf(result.request.card_id, result.request.user_id) :
          reviews[i].repetitions = 1 /\ reviews[i].quality = Some(0)

(* C25: the counters done and to_review of GetStats are not exclusive: a   *)
(* row with last_reviewed on the current day and due_date <= now is        *)
(* counted in both, and such a row is reachable through submissions and    *)
(* the passage of time.                                                    *)
DoneAndDue(deck_id, user_id) ==
    {i \in DueRowsOfDeck(deck_id, user_id) :
        \E t \in reviews[i].last_reviewed : DayOf(t) = DayOf(now)}

C25_DoneAndDueOverlap ==
    Answered("stats") =>
        LET d == result.request.deck_id
            u == result.request.user_id
            due == DueRowsOfDeck(d, u)
            today == {i \in RowsOfDeck(d, u) :
                        \E t \in reviews[i].last_reviewed : DayOf(t) = DayOf(now)}
        IN  /\ result.body.to_review >= Cardinality(DoneAndDue(d, u))
            /\ result.body.done >= Cardinality(DoneAndDue(d, u))
            /\ result.body.to_review + result.body.done =
                  Cardinality(due \cup today) + Cardinality(DoneAndDue(d, u))

\* deck 3 has one card and one row: reviewed yesterday in spaced mode, due
\* today and touched today by a fast review; both counters show 1
C25_Witness ==
    /\ Answered("stats") /\ result.request.deck_id = 3
    /\ Cardinality(RowsOfDeck(3, 1)) = 1
    /\ DoneAndDue(3, 1) # {}
    /\ result.body = [new |-> 0, to_review |-> 1, done |-> 1]

(* C26: two overlapping spaced submissions on the same existing row are   *)
(* serialized: the row they leave is the result of the two calculator      *)
(* steps applied one after the other in some order, so that no update is   *)
(* lost (two quality 5 submissions raise repetitions by 2).                *)
Advance(row, quality) ==
    LET n == calculate_next_interval(row, quality)
    IN  [ease_factor |-> n.new_ease, interval |-> n.new_interval,
         repetitions |-> n.new_repetitions]

C26_SerializedUpdates ==
    [][\A w \in Workers :
          (/\ txn[w].pc = "fetched" /\ txn'[w] = Idle
           /\ txn[w].mode = "spaced" /\ txn[w].loaded # None) =>
             LET read == The(txn[w].loaded)
                 found == reviews[read.id]
                 left == reviews'[read.id]
                 q == The(txn[w].quality)
             IN  \/ Sm2(left) = Sm2(Advance(found, q))
                 \/ /\ found.quality # None
                    /\ Sm2(left) = Sm2(Advance(Advance(read, q), The(found.quality)))]_vars

(* C27: a card NextCard returns, in any mode and with either shuffle       *)
(* value, belongs to the requested deck and to the requesting user; rows   *)
(* of other users and cards of other decks never bring a card of another   *)
(* deck or owner into the response.                                        *)
C27_DeckAndOwner ==
    (Answered("next") /\ result.body # None) =>
        LET card == The(result.body)
        IN  /\ card.id \in DOMAIN cards
            /\ cards[card.id].deck_id = result.request.deck_id
            /\ cards[card.id].user_id = result.request.user_id
            /\ card.deck_id = result.request.deck_id
            /\ card.user_id = result.request.user_id

\* user 1 is served the new card of deck 1 while the card of deck 2 is due
\* and user 2 has a row on the card of deck 3
C27_Witness ==
    /\ Answered("next") /\ result.request.mode = "spaced"
    /\ result.request.user_id = 1 /\ result.request.deck_id = 1
    /\ result.body # None
    /\ IsDue(2, 1)
    /\ RecordsOf(3, 2) # {}

\* the cards of the deck without a row reviewed on the current day
NotReviewedToday(deck_id, user_id) ==
    {c \in CardsOfDeck(deck_id, user_id) : ~ReviewedToday(c, user_id)}

\* the response hands a card to the client
GivesCard(response) ==
    response # NoResponse /\ response.op = "next" /\ response.status = 200 /\ response.body # None

(* C28: a fast session terminates.  Within one day, each review of the     *)
(* card that NextCard(fast) returned takes exactly that card out of the    *)
(* cards not yet reviewed that day, nothing else changes this set, a       *)
(* returned card is always one of the set, and NextCard(fast) answers none *)
(* exactly when the set is empty: every card of the deck is returned at    *)
(* most once and none arrives after as many submissions as the set had     *)
(* cards.                                                                  *)
C28_FastSessionTerminates ==
    [][LET left == NotReviewedToday(1, 1)
       IN  /\ (submits' = submits + 1) =>
                 /\ GivesCard(result)
                 /\ The(result.body).id \in left
                 /\ NotReviewedToday(1, 1)' = left \ {The(result.body).id}
           /\ (submits' = submits) => NotReviewedToday(1, 1)' = left
           /\ Handles("next") =>
                 /\ result'.status = 200
                 /\ result'.body = None <=> left = {}
                 /\ result'.body # None => The(result'.body).id \in left]_vars

\* one card had been reviewed earlier that day: the session ends after the
\* review of the other
C28_Witness ==
    /\ Answered("next") /\ result.request.mode = "fast" /\ result.body = None
    /\ submits = 1
    /\ \E c \in CardsOfDeck(1, 1) :
         \E i \in RecordsOf(c, 1) : reviews[i].last_reviewed = Some(today_start(now))

\* the cards of the deck that are new or due
Pending(deck_id, user_id) ==
    {c \in CardsOfDeck(deck_id, user_id) : IsNew(c, user_id) \/ IsDue(c, user_id)}

\* the card has a row and no row of it falls due before the day ends
Settled(card_id, user_id) ==
    /\ ~IsNew(card_id, user_id)
    /\ \A i \in RecordsOf(card_id, user_id) :
          \A d \in reviews[i].due_date : d >= today_start(now) + timedelta(1)

(* C29: right after an accepted spaced review of a card, with any quality  *)
(* 0..5, the card is not new and its due date is at least one day after    *)
(* now, so it is not due; within the day a card that is settled stays      *)
(* settled, spaced NextCard returns only cards that are new or due and     *)
(* answers none exactly when there is none: a spaced session returns each  *)
(* card at most once and ends with none.                                   *)
C29_SpacedSessionEnds ==
    [][LET pending == Pending(1, 1)
       IN  /\ (submits' = submits + 1) =>
                 /\ GivesCard(result)
                 /\ \E c \in pending :
                       /\ c = The(result.body).id
                       /\ ~IsNew(c, 1)'
                       /\ ~IsDue(c, 1)'
                       /\ \A i \in RecordsOf(c, 1)' :
                             \E d \in reviews'[i].due_date : d >= now + timedelta(1)
                       /\ Settled(c, 1)'
                       /\ Pending(1, 1)' = pending \ {c}
           /\ \A c \in CardsOfDeck(1, 1) : Settled(c, 1) => Settled(c, 1)'
           /\ Handles("next") =>
                 /\ result'.status = 200
                 /\ result'.body = None <=> pending = {}
                 /\ result'.body # None => The(result'.body).id \in pending]_vars

\* the session ends after the review of a new card and of a due card
C29_Witness ==
    /\ Answered("next") /\ result.request.mode = "spaced" /\ result.body = None
    /\ submits = 2
    /\ \E i \in DOMAIN reviews : reviews[i].repetitions = 2
    /\ \E i \in DOMAIN reviews : reviews[i].repetitions = 0

(* C30: in every reachable state, also after submissions that overlap,    *)
(* GetStats on a deck with N cards gives 0 <= new <= N, to_review <= N -   *)
(* new and done <= N - new: each counter counts a card at most once and    *)
(* only reviewed cards are counted as due or done.                         *)
C30_StatsBounds ==
    \A deck_id \in DeckIds :
        \A user_id \in Users :
            deck_of_user(deck_id, user_id) =>
                LET stats == get_study_stats(deck_id, user_id)
                    N == Cardinality(deck_cards(deck_id, user_id))
                IN  /\ 0 <= stats.new /\ stats.new <= N
                    /\ stats.to_review <= N - stats.new
                    /\ stats.done <= N - stats.new

(* C7: two submissions for the same (card_id, user_id) that overlap while  *)
(* the pair has no row leave exactly one row for the pair once both have   *)
(* committed: the second to commit updates the row of the first.           *)
InFlight(card_id, user_id) ==
    \E w \in Workers :
        /\ txn[w].pc = "fetched"
        /\ txn[w].card_id = card_id /\ txn[w].user_id = user_id

C7_FirstReviewRace ==
    \A c \in CardIds, u \in Users :
        (~InFlight(c, u) /\ RecordsOf(c, u) # {}) =>
            Cardinality(RecordsOf(c, u)) = 1

====
